---- MODULE Spec2Model ----
(***************************************************************************)
(* Model of the CBT assistant backend (src/backend): the OCR page batch    *)
(* processor (ocr_service.py), the dual-mode analysis service              *)
(* (cbt_llm_service.py) and the /analyse endpoint in front of it (app.py). *)
(*                                                                         *)
(* Text is modelled as a sequence of tokens.  A token is a string: one     *)
(* character (a quote, a blank), or a run of characters the code treats    *)
(* as a unit (the three backticks of a fence, the word json, a word of     *)
(* content).                                                               *)
(***************************************************************************)
EXTENDS Integers, Sequences, FiniteSets, TLC

VARIABLES
    \* ---- _extract_json_from_markdown applied to one raw text
    ex_text,        \* the raw text handed to the function
    ex_pc,          \* "ready" | "done"
    ex_selected,    \* json_content after the match / fallback (line 154/157)
    ex_out,         \* the value returned (line 163)
    \* ---- the Flask application and its CBTLLMService
    app_state,      \* "new" before create_app has run, "serving" after
    app_llm_service,\* app.llm_service: "unset" | "none" | "service"
    svc,            \* the fields of the CBTLLMService instance (0 is None)
    builds,         \* how often each set-up step has run
    init_failure,   \* the set-up step that raised in the constructor, or "none"
    env,            \* what the model and the retriever can answer
    call,           \* per request thread: the request, the locals, the answer
    \* ---- OCRService.process_images over one images directory
    images_dir_exists, \* whether config.JOURNAL_IMAGES_PATH is a directory
    splits_dir_exists, \* whether its "splits" subdirectory is there
    dir_listing,    \* the file names of the directory, in listing order
    ocr_pc,         \* "new" | "start" | "loop" | "returned" | "raised"
    ocr_exc,        \* the exception that left the service: its class and str(e)
    ocr_response,   \* the answer of POST /process-images
    image_files,    \* what get_image_files returned
    page_idx,       \* the pages processed so far
    full_text,      \* the corpus built so far, then returned
    page_log,       \* per processed page: what was called and what came back
    split_files,    \* the files of the splits directory: who wrote each of them
    \* ---- OCRService.split_image on one page image
    orig_width,     \* the columns of the page image as read from the file
    img_width,      \* the columns of the resized image
    vertical,       \* the columns of the foreground pixels left by the filter
    split_pc,       \* "ready" | "done" | "raised"
    avg_col,        \* the gutter column, -1 before it is computed
    left_width,     \* the width of the left sub-image written
    right_width,    \* the width of the right sub-image written
    \* ---- POST /upload-images followed by POST /process-images
    case_sensitive, \* whether Path.glob tells upper case from lower case
    up_pc,          \* "ready" | "saved"
    up_files,       \* the file names of the upload request
    up_saved,       \* saved_files: the names save_image_files wrote
    up_dir,         \* the entries of the images directory, in listing order
    up_found,       \* what get_image_files returned in the latest run
    up_splits,      \* the files of the splits subdirectory
    up_runs         \* how many times the images have been processed

exVars == <<ex_text, ex_pc, ex_selected, ex_out>>

llmVars == <<app_state, app_llm_service, svc, builds, init_failure, env, call>>

ocrVars == <<images_dir_exists, splits_dir_exists, dir_listing, ocr_pc, ocr_exc,
            ocr_response, image_files, page_idx, full_text, page_log,
            split_files>>

splitVars == <<orig_width, img_width, vertical, split_pc, avg_col, left_width, right_width>>

upVars == <<case_sensitive, up_pc, up_files, up_saved, up_dir, up_found, up_splits,
           up_runs>>

vars == <<ex_text, ex_pc, ex_selected, ex_out,
          app_state, app_llm_service, svc, builds, init_failure, env, call,
          images_dir_exists, splits_dir_exists, dir_listing, ocr_pc, ocr_exc,
          ocr_response, image_files, page_idx, full_text, page_log, split_files,
          orig_width, img_width, vertical, split_pc, avg_col, left_width,
          right_width,
          case_sensitive, up_pc, up_files, up_saved, up_dir, up_found, up_splits,
          up_runs>>

-----------------------------------------------------------------------------
(* Tokens *)

TICKS   == "FENCE"    \* three backticks
JSONTAG == "json"     \* the tag that follows an opening fence
WS      == " "
NL      == "\n"
CR      == "\r"
DQ      == "DQ"       \* the ASCII double quote
LDQ     == "LDQ"      \* U+201C, left curly double quote
RDQ     == "RDQ"      \* U+201D, right curly double quote
LSQ     == "LSQ"      \* U+2018 / U+2019, curly single quote (content)

Whitespace == {WS, NL, CR}

\* the longest sequences of the enumerated raw texts
MaxRawLen == 5

-----------------------------------------------------------------------------
(* Sequence helpers *)

RECURSIVE SeqsUpTo(_, _)
SeqsUpTo(S, n) ==
    IF n = 0 THEN {<<>>}
    ELSE LET shorter == SeqsUpTo(S, n - 1)
         IN  shorter \cup {Append(s, x) : s \in {t \in shorter : Len(t) = n - 1}, x \in S}

\* str.strip(): leading and trailing whitespace removed
RECURSIVE LStrip(_)
LStrip(s) ==
    IF s = <<>> THEN <<>>
    ELSE IF Head(s) \in Whitespace THEN LStrip(Tail(s)) ELSE s

RECURSIVE RStrip(_)
RStrip(s) ==
    IF s = <<>> THEN <<>>
    ELSE IF s[Len(s)] \in Whitespace THEN RStrip(SubSeq(s, 1, Len(s) - 1)) ELSE s

Strip(s) == RStrip(LStrip(s))

\* str.replace(old, new) for one-token old and new
Replace(s, old, new) == [i \in 1..Len(s) |-> IF s[i] = old THEN new ELSE s[i]]

-----------------------------------------------------------------------------
(* re.search of the pattern FENCE json \s* (.*?) \s* FENCE, with DOTALL *)

\* \s* is greedy: the first position at or after p that holds no whitespace
RECURSIVE SkipWs(_, _)
SkipWs(text, p) ==
    IF p <= Len(text) /\ text[p] \in Whitespace THEN SkipWs(text, p + 1) ELSE p

\* (.*?) is lazy: the group grows one token at a time from p until \s* FENCE
\* matches behind it; 0 when it never does
RECURSIVE LazyEnd(_, _)
LazyEnd(text, q) ==
    IF q > Len(text) + 1 THEN 0
    ELSE LET r == SkipWs(text, q)
         IN  IF r <= Len(text) /\ text[r] = TICKS THEN q
             ELSE LazyEnd(text, q + 1)

\* (.*) greedy instead of lazy: the group runs to the last closing fence
RECURSIVE GreedyEnd(_, _)
GreedyEnd(text, q) ==
    IF q < 1 THEN 0
    ELSE LET r == SkipWs(text, q)
         IN  IF r <= Len(text) /\ text[r] = TICKS THEN q
             ELSE GreedyEnd(text, q - 1)

\* the match attempted at start position s: [found, group]
MatchAt(text, s) ==
    IF s + 1 <= Len(text) /\ text[s] = TICKS /\ text[s + 1] = JSONTAG
    THEN LET p == SkipWs(text, s + 2)
             q == LazyEnd(text, p)
         IN  IF q = 0 THEN [found |-> FALSE, group |-> <<>>]
             ELSE [found |-> TRUE, group |-> SubSeq(text, p, q - 1)]
    ELSE [found |-> FALSE, group |-> <<>>]

\* the same search with a greedy group
RECURSIVE GreedySearchFrom(_, _)
GreedySearchFrom(text, s) ==
    IF s > Len(text) THEN [found |-> FALSE, group |-> <<>>]
    ELSE IF s + 1 <= Len(text) /\ text[s] = TICKS /\ text[s + 1] = JSONTAG
              /\ GreedyEnd(text, Len(text)) >= SkipWs(text, s + 2)
         THEN [found |-> TRUE,
               group |-> SubSeq(text, SkipWs(text, s + 2), GreedyEnd(text, Len(text)) - 1)]
         ELSE GreedySearchFrom(text, s + 1)

re_search_greedy(text) == GreedySearchFrom(text, 1)

\* re.search tries the start positions left to right
RECURSIVE SearchFrom(_, _)
SearchFrom(text, s) ==
    IF s > Len(text) THEN [found |-> FALSE, group |-> <<>>]
    ELSE LET m == MatchAt(text, s)
         IN  IF m.found THEN m ELSE SearchFrom(text, s + 1)

re_search(text) == SearchFrom(text, 1)

-----------------------------------------------------------------------------
(* CBTLLMService._extract_json_from_markdown *)

\* lines 150-157: the content picked for validation, before the quote fix
SelectContent(text) ==
    LET m == re_search(text)
    IN  IF m.found THEN Strip(m.group) ELSE Strip(text)

\* only the closing quote is fixed
FixQuotesRightOnly(json_content) == Replace(json_content, RDQ, DQ)

\* lines 160-161: curly double quotes to straight quotes
FixQuotes(json_content) == Replace(Replace(json_content, RDQ, DQ), LDQ, DQ)

extract_json_from_markdown(text) == FixQuotes(SelectContent(text))

-----------------------------------------------------------------------------
(* models.py: the two result schemas, and pydantic's model_validate_json.   *)
(* A JSON object is the token LB, its members and the token RB; a member is *)
(* a quoted key followed by its value (colon and comma are left out); a     *)
(* value is a list token or a quoted word.                                  *)

LB == "{"
RB == "}"
K_ISSUE      == "cognitive_distortions_issue"
K_CONTEXT    == "cognitive_distortions_context"
K_COMPARISON == "comparison"
Keys     == {K_ISSUE, K_CONTEXT, K_COMPARISON}
ListVals == {"list1", "list2"}      \* JSON arrays of CognitiveDistortion objects
StrWords == {"str1", LSQ}           \* the contents of JSON strings

NoResult == [shape |-> "none"]

ParseFail == [ok |-> FALSE, members |-> <<>>]

\* the members of a JSON object, in order
RECURSIVE ParseMembers(_)
ParseMembers(s) ==
    LET t == LStrip(s)
    IN  IF t = <<>> THEN [ok |-> TRUE, members |-> <<>>]
        ELSE IF Len(t) >= 4 /\ t[1] = DQ /\ t[2] \in Keys /\ t[3] = DQ
        THEN IF t[4] \in ListVals
             THEN LET rest == ParseMembers(SubSeq(t, 5, Len(t)))
                  IN  IF rest.ok
                      THEN [ok |-> TRUE,
                            members |-> <<[key |-> t[2], kind |-> "list", val |-> t[4]]>>
                                        \o rest.members]
                      ELSE ParseFail
             ELSE IF Len(t) >= 6 /\ t[4] = DQ /\ t[5] \in StrWords /\ t[6] = DQ
             THEN LET rest == ParseMembers(SubSeq(t, 7, Len(t)))
                  IN  IF rest.ok
                      THEN [ok |-> TRUE,
                            members |-> <<[key |-> t[2], kind |-> "str", val |-> t[5]]>>
                                        \o rest.members]
                      ELSE ParseFail
             ELSE ParseFail
        ELSE ParseFail

\* json parsing of the whole content: one object, whitespace around it allowed
parse_json(content) ==
    LET c == Strip(content)
    IN  IF Len(c) >= 2 /\ c[1] = LB /\ c[Len(c)] = RB
        THEN ParseMembers(SubSeq(c, 2, Len(c) - 1))
        ELSE ParseFail

\* the value of a key: the last member that carries it wins
HasField(members, key, kind) ==
    /\ \E i \in 1..Len(members) : members[i].key = key
    /\ LET last == CHOOSE i \in 1..Len(members) :
                      /\ members[i].key = key
                      /\ \A j \in (i + 1)..Len(members) : members[j].key # key
       IN  members[last].kind = kind

FieldVal(members, key) ==
    LET last == CHOOSE i \in 1..Len(members) :
                   /\ members[i].key = key
                   /\ \A j \in (i + 1)..Len(members) : members[j].key # key
    IN  members[last].val

\* CogDistortionAnalysis.model_validate_json: the required list field; fields
\* the schema does not name are ignored
validate_CogDistortionAnalysis(json_content) ==
    LET p == parse_json(json_content)
    IN  IF p.ok /\ HasField(p.members, K_ISSUE, "list")
        THEN [ok |-> TRUE,
              analysis |-> [shape |-> "CogDistortionAnalysis",
                            cognitive_distortions_issue |-> FieldVal(p.members, K_ISSUE)]]
        ELSE [ok |-> FALSE, analysis |-> NoResult]

\* CogDistortionComparison.model_validate_json
validate_CogDistortionComparison(json_content) ==
    LET p == parse_json(json_content)
    IN  IF /\ p.ok
           /\ HasField(p.members, K_CONTEXT, "list")
           /\ HasField(p.members, K_COMPARISON, "str")
        THEN [ok |-> TRUE,
              analysis |-> [shape |-> "CogDistortionComparison",
                            cognitive_distortions_context |-> FieldVal(p.members, K_CONTEXT),
                            comparison |-> FieldVal(p.members, K_COMPARISON)]]
        ELSE [ok |-> FALSE, analysis |-> NoResult]

-----------------------------------------------------------------------------
(* CBTLLMService: construction and the two lazily guarded pipelines *)

None == 0

\* __init__, lines 26-30
NewService ==
    [vector_store |-> None, retriever |-> None, rag_chain |-> None,
     simple_chain |-> None, documents |-> None]

NoBuilds == [load_documents |-> 0, vector_store |-> 0, rag_chain |-> 0, simple_chain |-> 0]

\* the set-up step that raises, if any
FailPoints == {"none", "load_documents", "vector_store", "rag_chain", "simple_chain"}

\* a guard that never finds the pipeline ready
NeverReady(s) == FALSE

\* line 36, the guard of _ensure_rag_ready
RagReady(s) == s.rag_chain # None /\ s.retriever # None

\* _ensure_simple_ready without its guard: the chain is set up on every call
SimpleReadyUnguarded(s) == FALSE

\* line 49, the guard of _ensure_simple_ready
SimpleReady(s) == s.simple_chain # None

\* _ensure_rag_ready: _load_documents, _setup_vector_store, _setup_rag_chain in
\* turn; each built object is numbered by the run that built it
ensure_rag_ready(s, b, fail_at) ==
    IF RagReady(s) THEN [svc |-> s, builds |-> b, raised |-> FALSE]
    ELSE LET b1 == [b EXCEPT !.load_documents = @ + 1]
             s1 == [s EXCEPT !.documents = b1.load_documents]
             b2 == [b1 EXCEPT !.vector_store = @ + 1]
             s2 == [s1 EXCEPT !.vector_store = b2.vector_store,
                              !.retriever = b2.vector_store]
             b3 == [b2 EXCEPT !.rag_chain = @ + 1]
             s3 == [s2 EXCEPT !.rag_chain = b3.rag_chain]
         IN  IF fail_at = "load_documents" THEN [svc |-> s, builds |-> b1, raised |-> TRUE]
             ELSE IF fail_at = "vector_store" THEN [svc |-> s1, builds |-> b2, raised |-> TRUE]
             ELSE IF fail_at = "rag_chain" THEN [svc |-> s2, builds |-> b3, raised |-> TRUE]
             ELSE [svc |-> s3, builds |-> b3, raised |-> FALSE]

\* _ensure_simple_ready
ensure_simple_ready(s, b, fail_at) ==
    IF SimpleReady(s) THEN [svc |-> s, builds |-> b, raised |-> FALSE]
    ELSE LET b1 == [b EXCEPT !.simple_chain = @ + 1]
         IN  IF fail_at = "simple_chain" THEN [svc |-> s, builds |-> b1, raised |-> TRUE]
             ELSE [svc |-> [s EXCEPT !.simple_chain = b1.simple_chain],
                   builds |-> b1, raised |-> FALSE]

\* CBTLLMService(config): both pipelines are set up in the constructor
construct_service(b, fail_at) ==
    LET r == ensure_rag_ready(NewService, b, fail_at)
    IN  IF r.raised THEN r ELSE ensure_simple_ready(r.svc, r.builds, fail_at)

-----------------------------------------------------------------------------
(* CBTLLMService.analyse_question *)

BLANK == "\n\n"

\* the source content left empty
NoSourceContent(docs) == <<>>

\* the document bodies with a blank line between two of them only
RECURSIVE SourceContentJoined(_)
SourceContentJoined(docs) ==
    IF docs = <<>> THEN <<>>
    ELSE IF Len(docs) = 1 THEN <<Head(docs)>>
    ELSE <<Head(docs), BLANK>> \o SourceContentJoined(Tail(docs))

\* the source content of a finished call kept and added to
SourceContentKept(docs) ==
    LET finished == {t \in DOMAIN call : call[t].pc = "done"}
    IN  (IF finished = {} THEN <<>>
         ELSE call[CHOOSE t \in finished : TRUE].source_content)
        \o SourceContentJoined(docs)

\* lines 206-212: every document body followed by a blank line
RECURSIVE SourceContent(_)
SourceContent(docs) ==
    IF docs = <<>> THEN <<>>
    ELSE <<Head(docs), BLANK>> \o SourceContent(Tail(docs))

LogEntry(msg, content) == [msg |-> msg, content |-> content]

Returned(analysis, source_content) ==
    [kind |-> "return", analysis |-> analysis, source_content |-> source_content,
     error |-> "none"]

Raised(error) ==
    [kind |-> "raise", analysis |-> NoResult, source_content |-> <<>>, error |-> error]

NoOutcome ==
    [kind |-> "none", analysis |-> NoResult, source_content |-> <<>>, error |-> "none"]

\* lines 214-223 and 239-241: the context branch after the chain answered
parse_rag(raw, source_content) ==
    LET json_content == extract_json_from_markdown(raw)
        v == validate_CogDistortionComparison(json_content)
    IN  IF v.ok
        THEN [json_content |-> json_content, log |-> <<>>,
              outcome |-> Returned(v.analysis, source_content)]
        ELSE [json_content |-> json_content,
              log |-> <<LogEntry("JSON parsing error (rag)", <<"ValidationError">>),
                        LogEntry("JSON content (rag)", json_content),
                        LogEntry("Failed to analyse question", <<"ValidationError">>)>>,
              outcome |-> Raised("ValidationError")]

\* the context-free branch validating against the schema of the other mode
parse_simple_wrong_schema(raw) == parse_rag(raw, <<>>)

\* the context-free branch answering a fallback result instead of raising
parse_simple_fallback(raw) ==
    LET json_content == extract_json_from_markdown(raw)
        v == validate_CogDistortionAnalysis(json_content)
    IN  [json_content |-> json_content, log |-> <<>>,
         outcome |-> IF v.ok THEN Returned(v.analysis, <<>>)
                     ELSE Returned([shape |-> "CogDistortionAnalysis",
                                    cognitive_distortions_issue |-> "fallback"], <<>>)]

\* lines 188-197 and 239-241: the context-free branch after the chain answered
parse_simple(raw) ==
    LET json_content == extract_json_from_markdown(raw)
        v == validate_CogDistortionAnalysis(json_content)
    IN  IF v.ok
        THEN [json_content |-> json_content, log |-> <<>>,
              outcome |-> Returned(v.analysis, <<>>)]
        ELSE [json_content |-> json_content,
              log |-> <<LogEntry("JSON parsing error (simple)", <<"ValidationError">>),
                        LogEntry("JSON content (simple)", json_content),
                        LogEntry("Failed to analyse question", <<"ValidationError">>)>>,
              outcome |-> Raised("ValidationError")]

-----------------------------------------------------------------------------
(* app.py: create_app and the /analyse endpoint *)

NoResponse ==
    [status |-> 0, success |-> FALSE, result |-> NoResult,
     has_source_content |-> FALSE, source_content |-> <<>>]

\* ErrorResponse(message=...).model_dump() with the status code
ErrorResponse(status) ==
    [status |-> status, success |-> FALSE, result |-> NoResult,
     has_source_content |-> FALSE, source_content |-> <<>>]

\* AnalysisResponse(result=..., source_content=...).model_dump(), 200
AnalysisResponse(analysis, source_content) ==
    [status |-> 200, success |-> TRUE, result |-> analysis,
     has_source_content |-> TRUE, source_content |-> source_content]

NoRequest == [is_json |-> FALSE, valid_body |-> FALSE, question |-> <<>>, use_context |-> "false"]

Questions == {<<>>, <<WS>>, <<"q1">>}

\* use_context is Optional[bool] with default False: true, false or null
Requests ==
    {NoRequest,
     [is_json |-> TRUE, valid_body |-> FALSE, question |-> <<>>, use_context |-> "false"]}
    \cup [is_json : {TRUE}, valid_body : {TRUE}, question : Questions,
          use_context : {"true", "false", "null"}]

\* every request taken as a context-mode request
UseContextAlways(req) == TRUE

\* line 181: `not use_context` is false only for True

UseContext(req) == req.use_context = "true"

IdleCall ==
    [pc |-> "idle", request |-> NoRequest, chain |-> None, retriever |-> None,
     invoked |-> <<>>,
     raw |-> <<>>, context_docs |-> <<>>, source_documents |-> <<>>,
     source_content |-> <<>>, json_content |-> <<>>, log |-> <<>>,
     outcome |-> NoOutcome, response |-> NoResponse]

Threads == DOMAIN call

\* create_app, lines 40-46: the service is built once, before any request
CreateApp ==
    /\ app_state = "new"
    /\ \E fail_at \in FailPoints :
         LET r == construct_service(builds, fail_at)
         IN  /\ svc' = r.svc
             /\ builds' = r.builds
             /\ init_failure' = IF r.raised THEN fail_at ELSE "none"
             /\ app_llm_service' = IF r.raised THEN "none" ELSE "service"
    /\ app_state' = "serving"
    /\ UNCHANGED <<env, call>>
    /\ UNCHANGED <<exVars, ocrVars, splitVars, upVars>>

\* /analyse, lines 54-89: the checks made before the service is called
\* the checks of the endpoint with the test for a blank question left out
request_status_blank_allowed(req, llm_service) ==
    IF ~req.is_json THEN 400
    ELSE IF ~req.valid_body THEN 400
    ELSE IF llm_service # "service" THEN 503
    ELSE 0

\* lines 60-86: the status answered before the service is called, 0 when
\* the request goes on to the service
request_status(req, llm_service) ==
    IF ~req.is_json THEN 400
    ELSE IF ~req.valid_body THEN 400
    ELSE IF Strip(req.question) = <<>> THEN 400
    ELSE IF llm_service # "service" THEN 503
    ELSE 0

Request(t) ==
    /\ app_state = "serving"
    /\ call[t].pc = "idle"
    /\ \E req \in Requests :
         LET c == [IdleCall EXCEPT !.request = req]
             status == request_status(req, app_llm_service)
         IN  call' = [call EXCEPT ![t] =
                 IF status # 0
                 THEN [c EXCEPT !.pc = "done", !.response = ErrorResponse(status)]
                 ELSE [c EXCEPT !.pc = "ensure"]]
    /\ UNCHANGED <<app_state, app_llm_service, svc, builds, init_failure, env>>
    /\ UNCHANGED <<exVars, ocrVars, splitVars, upVars>>

\* the exception leaves analyse_question (lines 239-241) and is answered 500
\* by the endpoint (lines 98-103)
Fails(c, error) ==
    [c EXCEPT !.pc = "done",
              !.log = @ \o <<LogEntry("Failed to analyse question", <<error>>)>>,
              !.outcome = Raised(error),
              !.response = ErrorResponse(500)]

\* lines 182 and 199: the guard of the selected pipeline, and its set-up when
\* the guard finds it missing
Ensure(t) ==
    /\ call[t].pc = "ensure"
    /\ \E fail_at \in FailPoints :
         LET r == IF UseContext(call[t].request)
                  THEN ensure_rag_ready(svc, builds, fail_at)
                  ELSE ensure_simple_ready(svc, builds, fail_at)
         IN  /\ svc' = r.svc
             /\ builds' = r.builds
             /\ call' = [call EXCEPT ![t] =
                    IF r.raised THEN Fails(@, "InitError") ELSE [@ EXCEPT !.pc = "invoke"]]
    /\ UNCHANGED <<app_state, app_llm_service, init_failure, env>>
    /\ UNCHANGED <<exVars, ocrVars, splitVars, upVars>>

\* lines 183 and 200: the chain of the selected mode is invoked once; the
\* retrieval-augmented chain queries the retriever for the prompt's context and
\* again for source_documents (lines 115-116)
Invoke(t) ==
    /\ call[t].pc = "invoke"
    /\ \/ \E raw \in env.responses :
            /\ ~UseContext(call[t].request)
            /\ call' = [call EXCEPT ![t] =
                   [@ EXCEPT !.pc = "parse", !.chain = svc.simple_chain,
                             !.invoked = Append(@, "simple_chain"), !.raw = raw]]
       \/ \E raw \in env.responses, ctx \in env.retrievals, src \in env.retrievals :
            /\ UseContext(call[t].request)
            /\ call' = [call EXCEPT ![t] =
                   [@ EXCEPT !.pc = "parse", !.chain = svc.rag_chain,
                             !.invoked = Append(@, "rag_chain"),
                             !.retriever = svc.retriever, !.raw = raw,
                             !.context_docs = ctx, !.source_documents = src]]
       \/ call' = [call EXCEPT ![t] =
                   Fails([@ EXCEPT !.chain = IF UseContext(call[t].request)
                                             THEN svc.rag_chain ELSE svc.simple_chain,
                                   !.invoked = Append(@, IF UseContext(call[t].request)
                                                         THEN "rag_chain"
                                                         ELSE "simple_chain")],
                         "InvokeError")]
    /\ UNCHANGED <<app_state, app_llm_service, svc, builds, init_failure, env>>
    /\ UNCHANGED <<exVars, ocrVars, splitVars, upVars>>

\* lines 188-197 and 205-223, then lines 95-103 of the endpoint
Parse(t) ==
    /\ call[t].pc = "parse"
    /\ LET c == call[t]
           source_content == IF UseContext(c.request)
                             THEN SourceContent(c.source_documents) ELSE <<>>
           p == IF UseContext(c.request)
                THEN parse_rag(c.raw, source_content)
                ELSE parse_simple(c.raw)
       IN  call' = [call EXCEPT ![t] =
               [c EXCEPT !.pc = "done",
                         !.source_content = source_content,
                         !.json_content = p.json_content,
                         !.log = @ \o p.log,
                         !.outcome = p.outcome,
                         !.response = IF p.outcome.kind = "return"
                                      THEN AnalysisResponse(p.outcome.analysis,
                                                            p.outcome.source_content)
                                      ELSE ErrorResponse(500)]]
    /\ UNCHANGED <<app_state, app_llm_service, svc, builds, init_failure, env>>
    /\ UNCHANGED <<exVars, ocrVars, splitVars, upVars>>

\* the response is sent; the thread takes the next request
Respond(t) ==
    /\ call[t].pc = "done"
    /\ call' = [call EXCEPT ![t] = IdleCall]
    /\ UNCHANGED <<app_state, app_llm_service, svc, builds, init_failure, env>>
    /\ UNCHANGED <<exVars, ocrVars, splitVars, upVars>>

-----------------------------------------------------------------------------
(* OCRService: get_image_files, process_single_image, process_images *)

FileNames == {"a.jpg", "a.png", "c.jpeg", "d.jpg", "notes.txt"}

\* Path.suffix
Suffix(f) ==
    CASE f = "a.jpg"    -> ".jpg"
      [] f = "d.jpg"    -> ".jpg"
      [] f = "a.png"    -> ".png"
      [] f = "c.jpeg"   -> ".jpeg"
      [] f = "PAGE.JPG" -> ".JPG"
      [] f = "jpg"      -> ""
      [] f = "splits"   -> ""
      [] OTHER          -> ".txt"

\* Path.stem
Stem(f) ==
    CASE f = "a.jpg"    -> "a"
      [] f = "a.png"    -> "a"
      [] f = "c.jpeg"   -> "c"
      [] f = "d.jpg"    -> "d"
      [] f = "PAGE.JPG" -> "PAGE"
      [] f = "jpg"      -> "jpg"
      [] f = "splits"   -> "splits"
      [] OTHER          -> "notes"

\* the split file named by the stem alone
split_file_without_suffix(f, part) == <<"splits/", Stem(f), "_" \o part>>

\* split_image, lines 121-123: splits / f"{stem}_left{suffix}" and the same
\* with _right
split_file(f, part) == <<"splits/", Stem(f), "_" \o part, Suffix(f)>>

\* str.lower on the extensions that occur
Lower(s) ==
    CASE s = "JPG"  -> "jpg"
      [] s = ".JPG" -> ".jpg"
      [] OTHER      -> s

\* the match of a name against "*" + ext: by the letters as they are where
\* the file system tells the cases apart, with the cases folded elsewhere
Matches(f, ext) ==
    IF case_sensitive THEN Suffix(f) = ext ELSE Lower(Suffix(f)) = ext

\* images_dir.glob("*" + ext): the entries of the directory itself that match,
\* in listing order
Glob(listing, ext) == SelectSeq(listing, LAMBDA f : Matches(f, ext))

\* the image files in one pass over the listing
get_image_files_in_one_pass(listing) ==
    SelectSeq(listing, LAMBDA f : Suffix(f) \in {".jpeg", ".jpg", ".png"})

\* get_image_files, lines 51-53: one glob per extension, appended in turn
get_image_files(listing) ==
    Glob(listing, ".jpeg") \o Glob(listing, ".jpg") \o Glob(listing, ".png")

Header(name) == <<NL, NL, "---", WS, name, WS, "---", NL>>
FailedNote(reason) == <<"[OCR processing failed: ">> \o reason \o <<"]">>
NoTextNote == <<"[No text extracted]">>

PageResult(raised, text, split, left, right) ==
    [raised |-> raised, text |-> text, split |-> split, left |-> left, right |-> right]

\* process_single_image without its try/except: the exception leaves it
process_single_image_no_catch(name, split, left_gen, right_gen) ==
    IF ~split.ok THEN PageResult(TRUE, <<>>, "raised", "not_called", "not_called")
    ELSE IF ~left_gen.ok THEN PageResult(TRUE, <<>>, "ok", "raised", "not_called")
    ELSE IF ~right_gen.ok THEN PageResult(TRUE, <<>>, "ok", "ok", "raised")
    ELSE LET extracted_text == Strip(left_gen.text) \o Strip(right_gen.text)
         IN  IF extracted_text # <<>>
             THEN PageResult(FALSE, Header(name) \o extracted_text, "ok", "ok", "ok")
             ELSE PageResult(FALSE, Header(name) \o NoTextNote, "ok", "ok", "ok")

\* process_single_image with one try/except around each generate call
process_single_image_per_column(name, split, left_gen, right_gen) ==
    IF ~split.ok
    THEN PageResult(FALSE, Header(name) \o FailedNote(split.text),
                    "raised", "not_called", "not_called")
    ELSE PageResult(FALSE,
                    Header(name)
                      \o (IF left_gen.ok THEN Strip(left_gen.text)
                          ELSE FailedNote(left_gen.text))
                      \o (IF right_gen.ok THEN Strip(right_gen.text)
                          ELSE FailedNote(right_gen.text)),
                    "ok",
                    IF left_gen.ok THEN "ok" ELSE "raised",
                    IF right_gen.ok THEN "ok" ELSE "raised")

\* process_single_image with the text of the right column put first
process_single_image_right_first(name, split, left_gen, right_gen) ==
    IF ~split.ok
    THEN PageResult(FALSE, Header(name) \o FailedNote(split.text),
                    "raised", "not_called", "not_called")
    ELSE IF ~left_gen.ok
    THEN PageResult(FALSE, Header(name) \o FailedNote(left_gen.text),
                    "ok", "raised", "not_called")
    ELSE IF ~right_gen.ok
    THEN PageResult(FALSE, Header(name) \o FailedNote(right_gen.text),
                    "ok", "ok", "raised")
    ELSE LET extracted_text == Strip(right_gen.text) \o Strip(left_gen.text)
         IN  IF extracted_text # <<>>
             THEN PageResult(FALSE, Header(name) \o extracted_text, "ok", "ok", "ok")
             ELSE PageResult(FALSE, Header(name) \o NoTextNote, "ok", "ok", "ok")

\* process_single_image with an empty extraction reported as a failure
process_single_image_empty_as_failure(name, split, left_gen, right_gen) ==
    IF ~split.ok
    THEN PageResult(FALSE, Header(name) \o FailedNote(split.text),
                    "raised", "not_called", "not_called")
    ELSE IF ~left_gen.ok
    THEN PageResult(FALSE, Header(name) \o FailedNote(left_gen.text),
                    "ok", "raised", "not_called")
    ELSE IF ~right_gen.ok
    THEN PageResult(FALSE, Header(name) \o FailedNote(right_gen.text),
                    "ok", "ok", "raised")
    ELSE LET extracted_text == Strip(left_gen.text) \o Strip(right_gen.text)
         IN  IF extracted_text # <<>>
             THEN PageResult(FALSE, Header(name) \o extracted_text, "ok", "ok", "ok")
             ELSE PageResult(FALSE, Header(name) \o FailedNote(<<"no text">>),
                             "ok", "ok", "ok")

\* process_single_image, lines 70-86: split, the two generate calls, and the
\* except branch that turns any exception into the annotation.
\* split, left_gen, right_gen: [ok, text] is what the call would answer
\* (text is the response, or str(e) of the exception it raises)
process_single_image(name, split, left_gen, right_gen) ==
    IF ~split.ok
    THEN PageResult(FALSE, Header(name) \o FailedNote(split.text),
                    "raised", "not_called", "not_called")
    ELSE IF ~left_gen.ok
    THEN PageResult(FALSE, Header(name) \o FailedNote(left_gen.text),
                    "ok", "raised", "not_called")
    ELSE IF ~right_gen.ok
    THEN PageResult(FALSE, Header(name) \o FailedNote(right_gen.text),
                    "ok", "ok", "raised")
    ELSE LET extracted_text == Strip(left_gen.text) \o Strip(right_gen.text)
         IN  IF extracted_text # <<>>
             THEN PageResult(FALSE, Header(name) \o extracted_text, "ok", "ok", "ok")
             ELSE PageResult(FALSE, Header(name) \o NoTextNote, "ok", "ok", "ok")

\* str.replace('\r\n', ' ')
RECURSIVE ReplaceCRLF(_)
ReplaceCRLF(s) ==
    IF s = <<>> THEN <<>>
    ELSE IF Len(s) >= 2 /\ s[1] = CR /\ s[2] = NL
         THEN <<WS>> \o ReplaceCRLF(SubSeq(s, 3, Len(s)))
         ELSE <<Head(s)>> \o ReplaceCRLF(Tail(s))

\* only the '\n' characters replaced
CleanNewlinesOnly(extracted_text) == Replace(extracted_text, NL, WS)

\* line 150
Clean(extracted_text) == Replace(Replace(ReplaceCRLF(extracted_text), NL, WS), CR, WS)

\* what split_image and generate can answer for a page
\* (wrote: the sub-images cv2.imwrite saved before split_image was left)
SplitOutcomes == {[ok |-> TRUE, text |-> <<>>, wrote |-> {"left", "right"}],
                  [ok |-> FALSE, text |-> <<"empty", WS, "mask">>, wrote |-> {}],
                  [ok |-> FALSE, text |-> <<"imwrite">>, wrote |-> {"left"}]}

\* lines 126-127: the files of the page written over what the directory held
WriteSplits(files, name, parts) ==
    LET new == {split_file(name, part) : part \in parts}
    IN  [f \in DOMAIN files \cup new |->
            IF f \in new
            THEN [page |-> name,
                  part |-> CHOOSE part \in parts : split_file(name, part) = f]
            ELSE files[f]]

\* the responses of the OCR model for the left and for the right sub-image
OcrTexts(part) ==
    IF part = "left"
    THEN {<<NL>>, <<WS, "alpha", CR, NL, "beta", NL>>}
    ELSE {<<NL>>, <<CR, "gamma", CR, "delta", NL>>}

GenOutcomes(part) ==
    {[ok |-> TRUE, text |-> r] : r \in OcrTexts(part)}
    \cup {[ok |-> FALSE, text |-> <<"model", NL, "error">>]}

\* what the OCR model can answer for the sub-images of a page: with the split
\* failed no sub-image is there to be sent (lines 72-76)
CallOutcomes(split, part) ==
    IF split.ok THEN GenOutcomes(part) ELSE {[ok |-> FALSE, text |-> <<>>]}

\* the files of the images directory, MaxFiles at most
MaxFiles == 3

Listings ==
    {l \in SeqsUpTo(FileNames, MaxFiles) : \A i, j \in 1..Len(l) : i # j => l[i] # l[j]}

\* str(config.JOURNAL_IMAGES_PATH)
IMAGES_DIR == "data/journal_images"

NoException == [kind |-> "none", message |-> <<>>]
Exception(kind, message) == [kind |-> kind, message |-> message]

\* Path.mkdir(exist_ok=True) of images_dir / "splits", parents not made
MkdirError == <<"[Errno 2] No such file or directory: ", IMAGES_DIR, "/splits">>

\* get_image_files, lines 49 and 56
DirNotFound == <<"Images directory not found: ", IMAGES_DIR>>
NoImagesFound == <<"No image files found in directory: ", IMAGES_DIR>>

\* every exception answered as an internal error
process_images_status_no_404(kind) == IF kind = "none" THEN 200 ELSE 500

\* /process-images, lines 188-206: the status for what left the service
process_images_status(kind) ==
    IF kind = "none" THEN 200
    ELSE IF kind = "FileNotFoundError" THEN 404
    ELSE 500

\* /process-images, line 183: OCRService(config), which makes the splits
\* directory (lines 29-36) and fails when the images directory is not there
ConstructOCRService ==
    /\ ocr_pc = "new"
    /\ IF images_dir_exists
       THEN /\ splits_dir_exists' = TRUE
            /\ ocr_pc' = "start"
            /\ UNCHANGED ocr_exc
       ELSE /\ ocr_exc' = Exception("FileNotFoundError", MkdirError)
            /\ ocr_pc' = "raised"
            /\ UNCHANGED splits_dir_exists
    /\ UNCHANGED <<images_dir_exists, dir_listing, ocr_response, image_files,
                   page_idx, full_text, page_log, split_files>>
    /\ UNCHANGED <<exVars, llmVars, splitVars, upVars>>

\* process_images, lines 141-142, with get_image_files raising when the
\* directory is not there (line 49) or holds no image (line 56)
GetImageFiles ==
    /\ ocr_pc = "start"
    /\ IF ~images_dir_exists
       THEN /\ ocr_exc' = Exception("FileNotFoundError", DirNotFound)
            /\ ocr_pc' = "raised"
            /\ UNCHANGED image_files
       ELSE IF get_image_files(dir_listing) = <<>>
       THEN /\ ocr_exc' = Exception("FileNotFoundError", NoImagesFound)
            /\ ocr_pc' = "raised"
            /\ UNCHANGED image_files
       ELSE /\ image_files' = get_image_files(dir_listing)
            /\ ocr_pc' = "loop"
            /\ UNCHANGED ocr_exc
    /\ UNCHANGED <<images_dir_exists, splits_dir_exists, dir_listing, ocr_response,
                   page_idx, full_text, page_log, split_files>>
    /\ UNCHANGED <<exVars, llmVars, splitVars, upVars>>

\* one turn of the loop, lines 147-151; an exception leaving
\* process_single_image leaves process_images too (lines 156-158)
ProcessPage ==
    /\ ocr_pc = "loop"
    /\ page_idx < Len(image_files)
    /\ \E split \in SplitOutcomes :
       \E left_gen \in CallOutcomes(split, "left"),
          right_gen \in CallOutcomes(split, "right") :
         LET name == image_files[page_idx + 1]
             r == process_single_image(name, split, left_gen, right_gen)
         IN  /\ page_log' = Append(page_log,
                    [name |-> name, split |-> r.split, left |-> r.left, right |-> r.right,
                     left_text |-> IF r.left = "not_called" THEN <<>> ELSE left_gen.text,
                     right_text |-> IF r.right = "not_called" THEN <<>> ELSE right_gen.text,
                     wrote |-> split.wrote,
                     text |-> r.text])
             /\ split_files' = WriteSplits(split_files, name, split.wrote)
             /\ IF r.raised
                THEN /\ ocr_pc' = "raised"
                     /\ ocr_exc' = Exception("Exception", <<"page">>)
                     /\ UNCHANGED <<page_idx, full_text>>
                ELSE /\ full_text' = full_text \o Clean(r.text)
                     /\ page_idx' = page_idx + 1
                     /\ UNCHANGED <<ocr_pc, ocr_exc>>
    /\ UNCHANGED <<images_dir_exists, splits_dir_exists, dir_listing, ocr_response,
                   image_files>>
    /\ UNCHANGED <<exVars, llmVars, splitVars, upVars>>

\* lines 153-154, and the endpoint's answer to the returned text (app.py,
\* lines 186-193): 200 with the text
ReturnText ==
    /\ ocr_pc = "loop"
    /\ page_idx = Len(image_files)
    /\ ocr_pc' = "returned"
    /\ ocr_response' = [status |-> process_images_status(ocr_exc.kind),
                        message |-> <<"Successfully processed images">>,
                        extracted_text |-> full_text]
    /\ UNCHANGED <<images_dir_exists, splits_dir_exists, dir_listing, ocr_exc,
                   image_files, page_idx, full_text, page_log, split_files>>
    /\ UNCHANGED <<exVars, llmVars, splitVars, upVars>>

\* /process-images, lines 195-206: 404 with str(e) of a FileNotFoundError,
\* 500 for any other exception
RespondProcessImages ==
    /\ ocr_pc = "raised"
    /\ ocr_response = NoResponse
    /\ ocr_response' =
          [status |-> process_images_status(ocr_exc.kind),
           message |-> IF ocr_exc.kind = "FileNotFoundError" THEN ocr_exc.message
                       ELSE <<"Image processing failed: ">> \o ocr_exc.message,
           extracted_text |-> <<>>]
    /\ UNCHANGED <<images_dir_exists, splits_dir_exists, dir_listing, ocr_pc, ocr_exc,
                   image_files, page_idx, full_text, page_log, split_files>>
    /\ UNCHANGED <<exVars, llmVars, splitVars, upVars>>

-----------------------------------------------------------------------------
(* OCRService.split_image: the gutter column and the two sub-images.        *)
(* The binarised, vertically filtered image (lines 92-104) is given by the  *)
(* columns of its nonzero pixels, one entry per pixel.                      *)

\* lines 106-107: the width of the band blanked at the left and right edges
Margin == 200

\* the images are up to 2 * Margin + MaxBand columns wide
MaxBand == 4

\* the nonzero pixels the filter leaves, at most
MaxPixels == 3

Widths == {1, Margin, 2 * Margin} \cup {2 * Margin + b : b \in 1..MaxBand}

\* the widths of the page files: those that line 93 scales to one of Widths
OrigWidths == {2 * w : w \in Widths} \cup {2 * w - 1 : w \in Widths}

\* the image scaled to half its width and widened by one column
ResizedWider(w) == {w \div 2 + 1}

\* line 93, cv2.resize with fx = 0.5: the new width is 0.5 * w rounded to an
\* integer; a half goes to the even neighbour where the build rounds with
\* the processor's instruction and away from zero where it does not
Resized(w) == IF w % 2 = 0 THEN {w \div 2} ELSE {(w - 1) \div 2, (w + 1) \div 2}

\* the columns a pixel is drawn from: the image edges, and the columns from
\* the last one of the left margin to the first one of the right margin
PixelCols(cols) ==
    {c \in 0..(cols - 1) : c \in {0, cols - 1} \/ (Margin - 1 <= c /\ c <= cols - Margin)}

PixelBags(cols) ==
    {v \in SeqsUpTo(PixelCols(cols), MaxPixels) :
        \A i \in 1..(Len(v) - 1) : v[i] <= v[i + 1]}

\* where a slice [i:] of an axis of length n starts
SliceStart(i, n) ==
    IF i >= 0 THEN (IF i > n THEN n ELSE i)
    ELSE (IF n + i < 0 THEN 0 ELSE n + i)

\* the right band blanked, the left band forgotten
MaskedRightOnly(c, cols) == c >= SliceStart(cols - Margin, cols)

\* lines 106-107: vertical[:, :200] = 0 and vertical[:, cols-200:] = 0
Masked(c, cols) == c < Margin \/ c >= SliceStart(cols - Margin, cols)

\* the pixels of the filtered image with the two bands left as they are
SurvivingUnmasked(v, cols) == v

\* line 110: the columns of the pixels that are still nonzero
Surviving(v, cols) == SelectSeq(v, LAMBDA c : ~Masked(c, cols))

RECURSIVE Sum(_)
Sum(v) == IF v = <<>> THEN 0 ELSE Head(v) + Sum(Tail(v))

\* np.round of total / n: to the nearest integer, a half to the even one
RoundHalfEven(total, n) ==
    LET q == total \div n
        r == total % n
    IN  IF 2 * r < n THEN q
        ELSE IF 2 * r > n THEN q + 1
        ELSE IF q % 2 = 0 THEN q ELSE q + 1

\* split_image: reading and filtering the image may raise (lines 92-104);
\* the average of no column is NaN and int() of it raises (line 111); imwrite
\* raises on an empty sub-image (lines 126-127)
SplitImage ==
    /\ split_pc = "ready"
    /\ \/ /\ split_pc' = "raised"
          /\ UNCHANGED <<img_width, vertical, avg_col, left_width, right_width>>
       \/ \E w \in Resized(orig_width) : \E v \in PixelBags(w) :
            LET found == Surviving(v, w)
                col == RoundHalfEven(Sum(found), Len(found))
                left == IF col > w THEN w ELSE col
                right == w - left
            IN  /\ img_width' = w
                /\ vertical' = v
                /\ IF found = <<>>
                   THEN /\ split_pc' = "raised"
                        /\ UNCHANGED <<avg_col, left_width, right_width>>
                   ELSE /\ avg_col' = col
                        /\ left_width' = left
                        /\ right_width' = IF left > 0 THEN right ELSE 0
                        /\ split_pc' = IF left > 0 /\ right > 0 THEN "done"
                                       ELSE "raised"
    /\ UNCHANGED orig_width
    /\ UNCHANGED <<exVars, llmVars, ocrVars, upVars>>

-----------------------------------------------------------------------------
(* What the language model and the retriever can answer *)

\* the chunk bodies of the corpus, MaxChunks of them
MaxChunks == 2
ChunkPool == <<"chunk1", "chunk2", "chunk3", "chunk4">>
Chunks == {ChunkPool[i] : i \in 1..MaxChunks}

\* config.py, RETRIEVER_K: the retriever returns at most K chunks
RETRIEVER_K == 3

\* the ordered lists of distinct chunks a query can return
Retrievals ==
    {r \in SeqsUpTo(Chunks, RETRIEVER_K) :
        \A i, j \in 1..Len(r) : i # j => r[i] # r[j]}

QuoteStyles == {"ascii", "curly"}
OpenQuote(style)  == IF style = "ascii" THEN DQ ELSE LDQ
CloseQuote(style) == IF style = "ascii" THEN DQ ELSE RDQ

ListMember(style, key, val) == <<OpenQuote(style), key, CloseQuote(style), val>>
StrMember(style, key, word) ==
    <<OpenQuote(style), key, CloseQuote(style), OpenQuote(style), word, CloseQuote(style)>>

\* the structured payloads a model writes in one quote style
Payloads(style) ==
    {<<LB>> \o ListMember(style, K_ISSUE, v) \o <<RB>> : v \in ListVals}
    \cup {<<LB>> \o ListMember(style, K_CONTEXT, "list1") \o <<WS>>
               \o StrMember(style, K_COMPARISON, w) \o <<RB>> : w \in StrWords}
    \cup {<<LB>> \o ListMember(style, K_ISSUE, "list1")
               \o ListMember(style, K_CONTEXT, "list2")
               \o StrMember(style, K_COMPARISON, "str1") \o <<RB>>,
          <<LB>> \o StrMember(style, K_ISSUE, "str1") \o <<RB>>,
          <<LB, RB>>}

Fenced(p) == <<TICKS, JSONTAG, NL>> \o p \o <<NL, TICKS>>

\* a payload bare, fenced, fenced inside commentary, or after commentary
Wrappings(p) ==
    {p, Fenced(p), <<"Here", WS>> \o Fenced(p) \o <<NL, "Note">>, <<"Here", WS>> \o p}

AllResponses ==
    UNION {Wrappings(p) : p \in UNION {Payloads(style) : style \in QuoteStyles}}
    \cup {<<"Sorry">>, <<>>}

\* a few answers, for the runs with several request threads
FewResponses ==
    {Fenced(<<LB>> \o ListMember("curly", K_ISSUE, "list1") \o <<RB>>),
     <<LB>> \o ListMember("ascii", K_CONTEXT, "list1")
            \o StrMember("ascii", K_COMPARISON, "str1") \o <<RB>>,
     <<"Sorry">>}

FewRetrievals == {<<"chunk1">>, <<"chunk2", "chunk1">>}

-----------------------------------------------------------------------------
(* Specifications *)

-----------------------------------------------------------------------------
(* FileStorageService: validate_image_file, save_image_files *)

\* the file names of an upload request; "" is a part sent without a file
UploadNames == {"PAGE.JPG", "a.jpg", ".jpg", "notes.txt", "README", ""}

\* '.' in filename
HasDot(filename) == filename \notin {"README", ""}

\* filename.rsplit('.', 1)[1]
RSplitLast(filename) ==
    CASE filename = "PAGE.JPG"  -> "JPG"
      [] filename = "a.jpg"     -> "jpg"
      [] filename = ".jpg"      -> "jpg"
      [] filename = "notes.txt" -> "txt"
      [] OTHER                  -> ""

\* the set of line 30
AllowedImageExtensions == {"png", "jpg", "jpeg"}

\* validate_image_file, lines 16-30
validate_image_file(filename) ==
    IF filename = "" \/ ~HasDot(filename)
    THEN FALSE
    ELSE Lower(RSplitLast(filename)) \in AllowedImageExtensions

\* werkzeug's secure_filename as called on line 63: it keeps the ASCII
\* letters, digits, "_", "-" and "." and strips "." and "_" from both ends
secure_filename(filename) ==
    CASE filename = ".jpg" -> "jpg"
      [] OTHER             -> filename

\* saved_files after the loop of lines 54-66
RECURSIVE SavedFiles(_)
SavedFiles(files) ==
    IF files = <<>>
    THEN <<>>
    ELSE (IF Head(files) # "" /\ validate_image_file(Head(files))
          THEN <<secure_filename(Head(files))>>
          ELSE <<>>) \o SavedFiles(Tail(files))

\* the directory after file.save of every name: a name already there is
\* overwritten in place
RECURSIVE WithEntries(_, _)
WithEntries(listing, names) ==
    IF names = <<>>
    THEN listing
    ELSE WithEntries(IF \E i \in 1..Len(listing) : listing[i] = Head(names)
                     THEN listing
                     ELSE Append(listing, Head(names)),
                     Tail(names))

\* the upload requests, MaxUploads parts at most
MaxUploads == 2

\* the runs of POST /process-images after the upload
MaxRuns == 2

\* POST /upload-images reaching save_image_files (app.py line 158) with an
\* images directory that is there and empty
SaveImageFiles ==
    /\ up_pc = "ready"
    /\ up_saved' = SavedFiles(up_files)
    /\ up_dir' = WithEntries(up_dir, up_saved')
    /\ up_pc' = "saved"
    /\ UNCHANGED <<case_sensitive, up_files, up_found, up_splits, up_runs>>
    /\ UNCHANGED <<exVars, llmVars, ocrVars, splitVars>>

\* POST /process-images after the upload: the constructor makes the splits
\* subdirectory, get_image_files lists the pages, and split_image writes the
\* two files of every page under the splits subdirectory
ProcessUploaded ==
    /\ up_pc = "saved"
    /\ up_runs < MaxRuns
    /\ up_dir' = WithEntries(up_dir, <<"splits">>)
    /\ up_found' = get_image_files(up_dir')
    /\ up_splits' = up_splits \cup
                    {split_file(up_found'[i], part) :
                        i \in 1..Len(up_found'), part \in {"left", "right"}}
    /\ up_runs' = up_runs + 1
    /\ UNCHANGED <<case_sensitive, up_pc, up_files, up_saved>>
    /\ UNCHANGED <<exVars, llmVars, ocrVars, splitVars>>

\* the request threads of the runs with concurrent requests
MaxThreads == 2

ExtractIdle ==
    /\ ex_text = <<>>
    /\ ex_pc = "off"
    /\ ex_selected = <<>>
    /\ ex_out = <<>>

LlmIdle ==
    /\ app_state = "off"
    /\ app_llm_service = "unset"
    /\ svc = NewService
    /\ builds = NoBuilds
    /\ init_failure = "none"
    /\ env = [responses |-> {}, retrievals |-> {}]
    /\ call = [t \in {} |-> IdleCall]

OcrIdle ==
    /\ images_dir_exists = FALSE
    /\ splits_dir_exists = FALSE
    /\ dir_listing = <<>>
    /\ ocr_pc = "off"
    /\ ocr_exc = NoException
    /\ ocr_response = NoResponse
    /\ split_files = <<>>
    /\ image_files = <<>>
    /\ page_idx = 0
    /\ full_text = <<>>
    /\ page_log = <<>>

SplitIdle ==
    /\ orig_width = 0
    /\ img_width = 0
    /\ vertical = <<>>
    /\ split_pc = "off"
    /\ avg_col = -1
    /\ left_width = 0
    /\ right_width = 0

\* no upload; the names of the other runs carry lower-case suffixes only,
\* which match alike whether or not the cases are told apart
UploadIdle ==
    /\ case_sensitive = TRUE
    /\ up_pc = "off"
    /\ up_files = <<>>
    /\ up_saved = <<>>
    /\ up_dir = <<>>
    /\ up_found = <<>>
    /\ up_splits = {}
    /\ up_runs = 0

\* _extract_json_from_markdown on every raw text up to MaxRawLen tokens
ExtractAlphabet == {TICKS, JSONTAG, WS, "a", LDQ}

ExtractInit ==
    /\ ex_text \in SeqsUpTo(ExtractAlphabet, MaxRawLen)
    /\ ex_pc = "ready"
    /\ ex_selected = <<>>
    /\ ex_out = <<>>
    /\ LlmIdle
    /\ OcrIdle
    /\ SplitIdle
    /\ UploadIdle

Extract ==
    /\ ex_pc = "ready"
    /\ ex_selected' = SelectContent(ex_text)
    /\ ex_out' = extract_json_from_markdown(ex_text)
    /\ ex_pc' = "done"
    /\ UNCHANGED ex_text
    /\ UNCHANGED <<llmVars, ocrVars, splitVars, upVars>>

ExtractNext == Extract

SpecExtract == ExtractInit /\ [][ExtractNext]_vars

\* the application with one request at a time and every answer of the model
LlmInit ==
    /\ app_state = "new"
    /\ app_llm_service = "unset"
    /\ svc = NewService
    /\ builds = NoBuilds
    /\ init_failure = "none"
    /\ env = [responses |-> AllResponses, retrievals |-> Retrievals]
    /\ call = [t \in {1} |-> IdleCall]
    /\ ExtractIdle
    /\ OcrIdle
    /\ SplitIdle
    /\ UploadIdle

LlmNext ==
    \/ CreateApp
    \/ \E t \in Threads : Request(t)
    \/ \E t \in Threads : Ensure(t)
    \/ \E t \in Threads : Invoke(t)
    \/ \E t \in Threads : Parse(t)
    \/ \E t \in Threads : Respond(t)

SpecLLM == LlmInit /\ [][LlmNext]_vars

\* the application with concurrent request threads and a few answers
ConcInit ==
    /\ app_state = "new"
    /\ app_llm_service = "unset"
    /\ svc = NewService
    /\ builds = NoBuilds
    /\ init_failure = "none"
    /\ env = [responses |-> FewResponses, retrievals |-> FewRetrievals]
    /\ call = [t \in 1..MaxThreads |-> IdleCall]
    /\ ExtractIdle
    /\ OcrIdle
    /\ SplitIdle
    /\ UploadIdle

SpecConc == ConcInit /\ [][LlmNext]_vars

\* POST /process-images with the images directory missing, or there with
\* every listing of up to MaxFiles files
OcrInit ==
    /\ images_dir_exists \in BOOLEAN
    /\ splits_dir_exists = FALSE
    /\ dir_listing \in (IF images_dir_exists THEN Listings ELSE {<<>>})
    /\ ocr_pc = "new"
    /\ ocr_exc = NoException
    /\ ocr_response = NoResponse
    /\ split_files = <<>>
    /\ image_files = <<>>
    /\ page_idx = 0
    /\ full_text = <<>>
    /\ page_log = <<>>
    /\ ExtractIdle
    /\ LlmIdle
    /\ SplitIdle
    /\ UploadIdle

OcrNext ==
    \/ ConstructOCRService
    \/ GetImageFiles
    \/ ProcessPage
    \/ ReturnText
    \/ RespondProcessImages

SpecOCR == OcrInit /\ [][OcrNext]_vars

\* split_image on every page width; the filtered pixels are drawn in the action
SplitInit ==
    /\ orig_width \in OrigWidths
    /\ img_width = 0
    /\ vertical = <<>>
    /\ split_pc = "ready"
    /\ avg_col = -1
    /\ left_width = 0
    /\ right_width = 0
    /\ ExtractIdle
    /\ LlmIdle
    /\ OcrIdle
    /\ UploadIdle

SplitNext == SplitImage

SpecSplit == SplitInit /\ [][SplitNext]_vars

\* every upload of up to MaxUploads parts, then the images processed, on a
\* file system that tells the cases of names apart and on one that does not
UploadInit ==
    /\ case_sensitive \in BOOLEAN
    /\ up_pc = "ready"
    /\ up_files \in SeqsUpTo(UploadNames, MaxUploads)
    /\ up_saved = <<>>
    /\ up_dir = <<>>
    /\ up_found = <<>>
    /\ up_splits = {}
    /\ up_runs = 0
    /\ ExtractIdle
    /\ LlmIdle
    /\ OcrIdle
    /\ SplitIdle

UploadNext ==
    \/ SaveImageFiles
    \/ ProcessUploaded

SpecUpload == UploadInit /\ [][UploadNext]_vars

-----------------------------------------------------------------------------
(* C6 *)

Min(S) == CHOOSE x \in S : \A y \in S : x <= y

\* the positions of an opening fence (FENCE json) that a later FENCE closes
OpenFences(t) ==
    {i \in 1..(Len(t) - 1) :
        /\ t[i] = TICKS
        /\ t[i + 1] = JSONTAG
        /\ \E k \in (i + 2)..Len(t) : t[k] = TICKS}

\* the interior of the first fenced block of t
FirstInterior(t) ==
    LET i == Min(OpenFences(t))
        k == Min({c \in (i + 2)..Len(t) : t[c] = TICKS})
    IN  SubSeq(t, i + 2, k - 1)

\* u is s without its surrounding whitespace
IsTrimOf(u, s) ==
    /\ u = <<>> \/ (u[1] \notin Whitespace /\ u[Len(u)] \notin Whitespace)
    /\ \E a \in 0..Len(s) : \E b \in 0..(Len(s) - a) :
          /\ u = SubSeq(s, a + 1, Len(s) - b)
          /\ \A j \in 1..a : s[j] \in Whitespace
          /\ \A j \in (Len(s) - b + 1)..Len(s) : s[j] \in Whitespace

\* C6: the content _extract_json_from_markdown selects is the interior of the
\* first block opened by FENCE json and closed by FENCE, without its
\* surrounding whitespace, when the text has such a block, and the whole
\* stripped text otherwise; what it returns is that selection token for token
\* (curly double quotes made straight), so no text outside the selection is
\* returned for validation.
C6_SelectsFirstFencedBlock ==
    ex_pc = "done" =>
        /\ IF OpenFences(ex_text) # {}
              THEN IsTrimOf(ex_selected, FirstInterior(ex_text))
              ELSE IsTrimOf(ex_selected, ex_text)
        /\ Len(ex_out) = Len(ex_selected)
        /\ \A j \in 1..Len(ex_out) :
              \/ ex_out[j] = ex_selected[j]
              \/ ex_selected[j] \in {LDQ, RDQ} /\ ex_out[j] = DQ

\* a text with content before the block, a non-empty interior and a second fence
C6_Witness ==
    /\ ex_pc = "done"
    /\ OpenFences(ex_text) # {}
    /\ Min(OpenFences(ex_text)) > 1
    /\ ex_selected # <<>>
    /\ Len(ex_selected) + 3 < Len(ex_text)

-----------------------------------------------------------------------------
(* Claims about analyse_question and the endpoint *)

\* the call of thread t got an answer of the chain and went on to validation
ReachedParse(c) ==
    /\ c.pc = "done"
    /\ c.outcome.kind # "none"
    /\ c.outcome.error \notin {"InitError", "InvokeError"}

\* docs joined as the code joins them, stated position by position
IsJoined(content, docs) ==
    /\ Len(content) = 2 * Len(docs)
    /\ \A i \in 1..Len(docs) : content[2 * i - 1] = docs[i] /\ content[2 * i] = BLANK

\* C3 as claimed: in context mode, with at least one retrieved chunk, the
\* caller receives the non-empty source content even when validation of the
\* model output fails.
C3_SourceContentDespiteParseFailure ==
    \A t \in Threads :
        (/\ ReachedParse(call[t])
         /\ UseContext(call[t].request)
         /\ call[t].source_documents # <<>>
         /\ ~validate_CogDistortionComparison(extract_json_from_markdown(call[t].raw)).ok)
        => /\ call[t].outcome.kind = "return"
           /\ call[t].outcome.source_content # <<>>
           /\ call[t].response.has_source_content

\* C3 as amended: in context mode the source content is computed from the
\* retrieved chunks before validation, and the caller receives it exactly when
\* validation succeeds (non-empty when a chunk was retrieved); when validation
\* fails the error is raised, and the caller and the 500 response carry no
\* source content.
C3_SourceContentOnlyOnSuccess ==
    \A t \in Threads :
        (ReachedParse(call[t]) /\ UseContext(call[t].request))
        => /\ IsJoined(call[t].source_content, call[t].source_documents)
           /\ IF validate_CogDistortionComparison(
                     extract_json_from_markdown(call[t].raw)).ok
              THEN /\ call[t].outcome.kind = "return"
                   /\ call[t].outcome.source_content = call[t].source_content
                   /\ call[t].response.has_source_content
                   /\ call[t].response.source_content = call[t].source_content
                   /\ call[t].source_documents # <<>>
                        => call[t].response.source_content # <<>>
              ELSE /\ call[t].outcome.kind = "raise"
                   /\ call[t].response.status = 500
                   /\ ~call[t].response.has_source_content

\* a context-mode call with retrieved chunks whose model output does not validate
C3_Witness ==
    \E t \in Threads :
        /\ ReachedParse(call[t])
        /\ UseContext(call[t].request)
        /\ Len(call[t].source_documents) >= 2
        /\ call[t].source_content # <<>>
        /\ call[t].outcome.error = "ValidationError"

Attempted(c) == extract_json_from_markdown(c.raw)

ValidatesInMode(c) ==
    IF UseContext(c.request)
    THEN validate_CogDistortionComparison(Attempted(c)).ok
    ELSE validate_CogDistortionAnalysis(Attempted(c)).ok

\* C5: in either mode, when the extracted and quote-normalised model output
\* does not validate against the schema of the mode, the call raises the
\* validation error, has logged the error and then the attempted content, and
\* hands no result to the caller (the endpoint answers 500 without a result).
C5_ValidationFailureIsRaised ==
    \A t \in Threads :
        (ReachedParse(call[t]) /\ ~ValidatesInMode(call[t]))
        => /\ call[t].outcome.kind = "raise"
           /\ call[t].outcome.error = "ValidationError"
           /\ call[t].outcome.analysis = NoResult
           /\ call[t].response.status = 500
           /\ call[t].response.result = NoResult
           /\ \E i, j \in 1..Len(call[t].log) :
                /\ i < j
                /\ call[t].log[i].content = <<"ValidationError">>
                /\ call[t].log[j].content = Attempted(call[t])
                /\ call[t].log[j].msg \in {"JSON content (simple)", "JSON content (rag)"}

\* calls of both kinds: a non-JSON answer, and a payload of the other mode
C5_Witness ==
    \E t \in Threads :
        /\ ReachedParse(call[t])
        /\ ~UseContext(call[t].request)
        /\ ~ValidatesInMode(call[t])
        /\ Attempted(call[t]) # <<>>
        /\ Attempted(call[t])[1] = LB

\* raw with every curly double quote written as the ASCII quote
AsciiQuoted(raw) ==
    [i \in 1..Len(raw) |-> IF raw[i] \in {LDQ, RDQ} THEN DQ ELSE raw[i]]

\* C7: without context, an answer that wraps in a fenced block a payload
\* written with curly double quotes gets the validated result that the same
\* answer written with ASCII quotes gets.
C7_CurlyQuotesAsPlainQuotes ==
    \A t \in Threads :
        (/\ ReachedParse(call[t])
         /\ ~UseContext(call[t].request)
         /\ OpenFences(call[t].raw) # {}
         /\ \E i \in 1..Len(call[t].raw) : call[t].raw[i] \in {LDQ, RDQ}
         /\ validate_CogDistortionAnalysis(
                SelectContent(AsciiQuoted(call[t].raw))).ok)
        => /\ call[t].outcome.kind = "return"
           /\ call[t].outcome.analysis =
                  validate_CogDistortionAnalysis(
                      SelectContent(AsciiQuoted(call[t].raw))).analysis

\* a fenced curly-quoted payload, inside commentary, that came back validated
C7_Witness ==
    \E t \in Threads :
        /\ ReachedParse(call[t])
        /\ ~UseContext(call[t].request)
        /\ OpenFences(call[t].raw) # {}
        /\ call[t].raw[1] = "Here"
        /\ \E i \in 1..Len(call[t].raw) : call[t].raw[i] = LDQ
        /\ call[t].outcome.kind = "return"
        /\ call[t].outcome.analysis.cognitive_distortions_issue = "list2"

WellFormed(req) == req.is_json /\ req.valid_body /\ Strip(req.question) # <<>>

\* C8 as claimed: a set-up failure of one pipeline leaves the other mode
\* usable: after the retrieval-augmented set-up failed a well-formed
\* context-free request is not turned away, and after the context-free set-up
\* failed a well-formed context request is not turned away.
C8_InitFailureFatalToThatModeOnly ==
    \A t \in Threads :
        (call[t].pc = "done" /\ WellFormed(call[t].request))
        => /\ (init_failure \in {"load_documents", "vector_store", "rag_chain"}
                 /\ ~UseContext(call[t].request))
                => call[t].response.status # 503
           /\ (init_failure = "simple_chain" /\ UseContext(call[t].request))
                => call[t].response.status # 503

\* C9: each set-up step of the service has run at most once, and every call
\* that invoked a chain invoked the one object the constructor built, also
\* with request threads interleaved.
C9_PipelinesBuiltAtMostOnce ==
    /\ builds.load_documents <= 1
    /\ builds.vector_store <= 1
    /\ builds.rag_chain <= 1
    /\ builds.simple_chain <= 1
    /\ \A t \in Threads :
         call[t].pc \in {"parse", "done"} /\ call[t].chain # None
         => /\ call[t].chain = 1
            /\ call[t].chain = IF UseContext(call[t].request)
                               THEN svc.rag_chain ELSE svc.simple_chain
            /\ call[t].retriever # None => call[t].retriever = svc.retriever

\* two threads past their invocation at once, one in each mode
C9_Witness ==
    \E t, u \in Threads :
        /\ call[t].pc = "parse" /\ UseContext(call[t].request)
        /\ call[u].pc = "done" /\ ~UseContext(call[u].request)
        /\ call[u].outcome.kind = "return"
        /\ call[t].chain # None /\ call[u].chain # None

-----------------------------------------------------------------------------
(* Claims about the page batch *)

\* sub occurs in full as a run of consecutive tokens
ContainsSeq(full, sub) ==
    \/ sub = <<>>
    \/ \E i \in 0..(Len(full) - Len(sub)) :
          full[i + 1] = sub[1] /\ SubSeq(full, i + 1, i + Len(sub)) = sub

PageFailed(e) == e.split = "raised" \/ e.left = "raised" \/ e.right = "raised"

\* the header of a page as it stands in the corpus, line breaks made blanks
CorpusHeader(name) == <<"---", WS, name, WS, "---", WS>>

\* C1: a failing page (split or OCR call) never raises out of process_images
\* and never ends the loop early: every image file gets its turn, in order, and
\* the corpus holds, behind each page's header, the extracted text of a page that
\* did not fail and the '[OCR processing failed: ' annotation of a page that did.
C1_PageFailureNeverAbortsBatch ==
    /\ ocr_pc = "raised" => image_files = <<>> /\ page_log = <<>>
    /\ ocr_pc = "returned" => Len(page_log) = Len(image_files)
    /\ ocr_pc \in {"loop", "returned"} =>
         \A i \in 1..Len(page_log) :
            LET e == page_log[i]
                words == Strip(e.left_text) \o Strip(e.right_text)
            IN  /\ e.name = image_files[i]
                /\ IF PageFailed(e)
                   THEN ContainsSeq(full_text,
                            CorpusHeader(e.name) \o <<"[OCR processing failed: ">>)
                   ELSE words # <<>> =>
                            ContainsSeq(full_text, CorpusHeader(e.name) \o Clean(words))

\* three pages, the second failing, the first and third with text
C1_Witness ==
    /\ ocr_pc = "returned"
    /\ Len(page_log) = 3
    /\ page_log[2].left = "raised"
    /\ ~PageFailed(page_log[1]) /\ Strip(page_log[1].left_text) # <<>>
    /\ ~PageFailed(page_log[3]) /\ Strip(page_log[3].right_text) # <<>>

\* C2 as claimed: when the OCR call of one column fails, the call for the
\* other column is still made, the failed column becomes the placeholder and
\* the text extracted from the other column stands in the page's output.
C2_ColumnFailureKeepsOtherColumn ==
    \A i \in 1..Len(page_log) :
        LET e == page_log[i]
        IN  /\ (e.split = "ok" /\ e.left = "raised")
                 => /\ e.right # "not_called"
                    /\ ContainsSeq(e.text, <<"[OCR processing failed: ">>)
                    /\ e.right = "ok" => ContainsSeq(e.text, Strip(e.right_text))
            /\ (e.split = "ok" /\ e.right = "raised")
                 => /\ e.left = "ok"
                    /\ ContainsSeq(e.text, <<"[OCR processing failed: ">>)
                    /\ ContainsSeq(e.text, Strip(e.left_text))

\* C2 as amended: when the OCR call of one column fails, the exception is
\* caught and the page still yields its header, but the whole page body is the
\* one placeholder with the reason of the failed call: after a failed left call
\* the right call is not made, and after a failed right call the text extracted
\* from the left column is not in the page's output.
C2_ColumnFailureReplacesPageBody ==
    /\ page_log # <<>> => ocr_pc # "raised"
    /\ \A i \in 1..Len(page_log) :
        LET e == page_log[i]
        IN  /\ (e.split = "ok" /\ e.left = "raised")
                 => /\ e.right = "not_called"
                    /\ e.text = Header(e.name) \o <<"[OCR processing failed: ">>
                                  \o e.left_text \o <<"]">>
            /\ (e.split = "ok" /\ e.right = "raised")
                 => /\ e.left = "ok"
                    /\ e.text = Header(e.name) \o <<"[OCR processing failed: ">>
                                  \o e.right_text \o <<"]">>
                    /\ Strip(e.left_text) # <<>>
                         => ~ContainsSeq(e.text, Strip(e.left_text))

\* a page whose left column gave text and whose right call failed, and a later page
C2_Witness ==
    /\ Len(page_log) >= 2
    /\ page_log[1].left = "ok"
    /\ Strip(page_log[1].left_text) # <<>>
    /\ page_log[1].right = "raised"

-----------------------------------------------------------------------------
(* Claims about split_image *)

\* C10: a gutter column, once computed, lies strictly inside the image that
\* is cut, and a split that completes has written a left sub-image of the
\* columns before it and a right sub-image of the columns from it on, both
\* non-empty.
C10_GutterStrictlyInside ==
    /\ avg_col # -1 => 0 < avg_col /\ avg_col < img_width
    /\ split_pc = "done" =>
         /\ avg_col # -1
         /\ left_width = avg_col /\ left_width > 0
         /\ right_width = img_width - avg_col /\ right_width > 0

\* a completed split whose column is the last one before the right margin,
\* computed with a pixel of the left margin blanked
C10_Witness ==
    /\ split_pc = "done"
    /\ avg_col = img_width - Margin - 1
    /\ \E i \in 1..Len(vertical) : vertical[i] = 0

\* the filtered image has no nonzero pixel outside the two edge bands
NoPixelBetweenMargins ==
    \A i \in 1..Len(vertical) :
        vertical[i] < Margin \/ vertical[i] >= img_width - Margin

\* C11: when no nonzero pixel is left after the filter and the blanking of
\* the two 200-column bands (always so for an image of at most 400 columns),
\* split_image ends with an error: no gutter column is returned (neither 0
\* nor the width nor any other) and neither sub-image is written.
C11_EmptyMaskFailsExplicitly ==
    /\ (NoPixelBetweenMargins /\ split_pc # "ready") =>
          /\ split_pc = "raised"
          /\ avg_col = -1
          /\ left_width = 0 /\ right_width = 0
    /\ img_width <= 2 * Margin => NoPixelBetweenMargins

\* an image exactly as wide as the two bands, with pixels, all of them blanked
C11_Witness ==
    /\ split_pc = "raised"
    /\ img_width = 2 * Margin
    /\ Len(vertical) >= 2
    /\ NoPixelBetweenMargins

\* C12 as claimed: the widths of the two sub-images written add up to the
\* width of the page image as it was read from its file.
C12_WidthsSumToOriginalWidth ==
    split_pc = "done" => left_width + right_width = orig_width

\* C12 as amended: the widths of the two sub-images written add up to the
\* width of the image that is cut, which is the page image scaled to half its
\* size: half the file's width, an odd width rounded to a neighbour.
C12_WidthsSumToResizedWidth ==
    split_pc = "done" =>
        /\ left_width + right_width = img_width
        /\ 2 * img_width \in {orig_width - 1, orig_width, orig_width + 1}
        /\ left_width + right_width < orig_width

\* a completed split of a page of odd width, both sub-images written
C12_Witness ==
    /\ split_pc = "done"
    /\ orig_width % 2 = 1
    /\ left_width > 0 /\ right_width > 0

\* the columns between the two blanked bands
Field == {c \in Margin..(img_width - Margin - 1) : TRUE}

\* the columns between the bands that hold a nonzero pixel
TextCols == {c \in Field : \E i \in 1..Len(vertical) : vertical[i] = c}

\* a..b is the blank band of a page of two columns: text right before it and
\* right behind it, none in it, and no other blank column inside the text
SeparatingBand(a, b) ==
    /\ a <= b
    /\ a - 1 \in TextCols /\ b + 1 \in TextCols
    /\ \A c \in a..b : c \notin TextCols
    /\ \A c \in Field \ (a..b) :
          (\E l, r \in TextCols : l < c /\ c < r) => c \in TextCols

\* C13 as claimed: on a page of two text columns with one blank band
\* between them, inside the field left by the two edge bands, the column
\* that gutter detection returns lies in the blank band, however the pixels
\* are spread over the two sides.
C13_GutterInsideBlankBand ==
    avg_col # -1 =>
        \A a, b \in Field : SeparatingBand(a, b) => a <= avg_col /\ avg_col <= b

\* the file names of the page headers of the corpus, in their order
HeaderNames == SelectSeq(full_text, LAMBDA tok : tok \in FileNames)

\* the image files of the directory, in the order of its listing
ListedImages == SelectSeq(dir_listing, LAMBDA f : f \in {"a.jpg", "a.png", "c.jpeg", "d.jpg"})

ListingPos(f) == CHOOSE i \in 1..Len(dir_listing) : dir_listing[i] = f

\* the turn of an extension in get_image_files
ExtTurn(f) == IF f = "c.jpeg" THEN 1 ELSE IF f \in {"a.jpg", "d.jpg"} THEN 2 ELSE 3

\* C14 as claimed: the page headers of the returned corpus stand in the
\* order in which the directory lists the image files.
C14_PagesInListingOrder ==
    ocr_pc = "returned" => HeaderNames = ListedImages

\* C14 as amended: the returned corpus holds one header per image file of
\* the directory, the .jpeg files first, then the .jpg files, then the .png
\* files, and the files of one extension in the order of the listing.
C14_PagesGroupedByExtension ==
    LET hs == HeaderNames
    IN  /\ \A i, j \in 1..Len(hs) :
              i < j => \/ ExtTurn(hs[i]) < ExtTurn(hs[j])
                       \/ /\ ExtTurn(hs[i]) = ExtTurn(hs[j])
                          /\ ListingPos(hs[i]) < ListingPos(hs[j])
        /\ ocr_pc = "returned" =>
              /\ Len(hs) = Len(ListedImages)
              /\ \A k \in 1..Len(ListedImages) :
                    \E i \in 1..Len(hs) : hs[i] = ListedImages[k]

\* a directory listing a .png file before two .jpg files: the corpus has the
\* two .jpg pages, in their listing order, before the .png page
C14_Witness ==
    /\ ocr_pc = "returned"
    /\ dir_listing = <<"a.png", "d.jpg", "a.jpg">>
    /\ HeaderNames = <<"d.jpg", "a.jpg", "a.png">>

\* the tokens of s that are in S, counted
Count(s, S) == Len(SelectSeq(s, LAMBDA tok : tok \in S))

\* the places where a carriage return is followed at once by a line feed
CRLFPairs(s) == Cardinality({i \in 1..(Len(s) - 1) : s[i] = CR /\ s[i + 1] = NL})

\* the line breaks of s: '\r\n' is one, a single '\n' or '\r' is one
LineBreaks(s) == Count(s, {NL, CR}) - CRLFPairs(s)

\* the page blocks as process_single_image returned them, one after the other
RECURSIVE PageTexts(_)
PageTexts(log) == IF log = <<>> THEN <<>> ELSE Head(log).text \o PageTexts(Tail(log))

\* s without blanks and line breaks
Inked(s) == SelectSeq(s, LAMBDA tok : tok \notin {WS, NL, CR})

\* C15: the corpus process_images builds and returns holds no '\n' and no
\* '\r', whatever the OCR responses and failure messages are; it is the page
\* blocks one after the other with every line break in them (those around
\* the page header too) turned into one space and nothing else changed.
C15_NoLineBreakInCorpus ==
    /\ Count(full_text, {NL, CR}) = 0
    /\ ocr_pc \in {"loop", "returned"} =>
          LET blocks == PageTexts(page_log)
          IN  /\ Inked(full_text) = Inked(blocks)
              /\ Len(full_text) = Len(blocks) - CRLFPairs(blocks)
              /\ Count(full_text, {WS}) = Count(blocks, {WS}) + LineBreaks(blocks)

\* a returned corpus of a page whose OCR text has '\r\n', '\n' and '\r' in it
\* and of a page whose failure message has a line break
C15_Witness ==
    /\ ocr_pc = "returned"
    /\ \E i, j \in 1..Len(page_log) :
          /\ page_log[i].right = "raised" /\ Count(page_log[i].text, {NL}) > 3
          /\ page_log[j].right = "ok" /\ CRLFPairs(page_log[j].text) > 0
          /\ Count(page_log[j].text, {CR}) > CRLFPairs(page_log[j].text)

\* the images directory is missing, or there without any image file
NothingToProcess == ~images_dir_exists \/ ListedImages = <<>>

\* C16: with the images directory missing, or there without a *.jpeg, *.jpg
\* or *.png file, building the OCR service and calling process_images ends
\* in a FileNotFoundError whose message holds the path of the images
\* directory, no page is split or sent to the OCR model, and the endpoint
\* answers 404 with that message.
C16_NoImagesIsNotFound ==
    NothingToProcess =>
        /\ ocr_pc \in {"new", "start", "raised"}
        /\ page_log = <<>> /\ full_text = <<>>
        /\ ocr_pc = "raised" =>
              /\ ocr_exc.kind = "FileNotFoundError"
              /\ ContainsSeq(ocr_exc.message, <<IMAGES_DIR>>)
        /\ ocr_response # NoResponse =>
              /\ ocr_pc = "raised"
              /\ ocr_response.status = 404
              /\ ocr_response.message = ocr_exc.message

\* the directory is missing and the endpoint has answered
C16_Witness ==
    /\ ~images_dir_exists
    /\ ocr_response # NoResponse
    /\ ocr_response.status = 404

\* a context-mode call that returned to its caller
ReturnedWithContext(c) ==
    c.pc = "done" /\ UseContext(c.request) /\ c.outcome.kind = "return"

\* C17 as claimed: the source content returned in context mode is the
\* bodies of the retrieved chunks in retrieval order with one blank line
\* between two neighbours, nothing before the first and nothing after the last.
C17_ChunksJoinedWithBlankLines ==
    \A t \in Threads :
        ReturnedWithContext(call[t]) =>
            LET docs == call[t].source_documents
                content == call[t].outcome.source_content
            IN  /\ Len(content) = (IF docs = <<>> THEN 0 ELSE 2 * Len(docs) - 1)
                /\ \A i \in 1..Len(docs) : content[2 * i - 1] = docs[i]
                /\ \A i \in 1..(Len(docs) - 1) : content[2 * i] = "\n\n"

\* C17 as amended: the source content returned in context mode is the
\* bodies of the retrieved chunks in retrieval order, each of them, the last
\* one too, followed by a blank line; nothing stands before the first body,
\* and without a retrieved chunk the source content is empty.
C17_EachChunkFollowedByBlankLine ==
    \A t \in Threads :
        ReturnedWithContext(call[t]) =>
            LET docs == call[t].source_documents
                content == call[t].outcome.source_content
            IN  /\ Len(content) = 2 * Len(docs)
                /\ \A i \in 1..Len(docs) :
                      content[2 * i - 1] = docs[i] /\ content[2 * i] = "\n\n"
                /\ call[t].response.source_content = content

\* a returned context-mode call with two retrieved chunks
C17_Witness ==
    \E t \in Threads :
        /\ ReturnedWithContext(call[t])
        /\ Len(call[t].source_documents) = 2
        /\ call[t].source_documents[1] # call[t].source_documents[2]
        /\ Len(call[t].outcome.source_content) = 4

\* the chain of the mode the request asks for
ChainOfMode(req) == IF req.use_context = "true" THEN "rag_chain" ELSE "simple_chain"

\* C18: a call of analyse_question invokes the chain of the mode it was
\* asked for at most once and the chain of the other mode never; a call whose
\* invocation or validation failed has invoked that one chain exactly once
\* and ends with the error raised (answered 500): no second invocation, no
\* result obtained from the other mode.
C18_OneInvocationNoFallback ==
    \A t \in Threads :
        LET c == call[t]
        IN  /\ Len(c.invoked) <= 1
            /\ \A i \in 1..Len(c.invoked) : c.invoked[i] = ChainOfMode(c.request)
            /\ c.pc \in {"idle", "ensure", "invoke"} => c.invoked = <<>>
            /\ c.pc = "parse" => Len(c.invoked) = 1
            /\ (c.pc = "done" /\ c.outcome.kind = "raise"
                   /\ c.outcome.error \in {"InvokeError", "ValidationError"})
                 => /\ Len(c.invoked) = 1
                    /\ c.response.status = 500
                    /\ c.outcome.analysis = NoResult

\* a context-mode call whose model output did not validate, after its one
\* invocation of the retrieval-augmented chain
C18_Witness ==
    \E t \in Threads :
        /\ call[t].pc = "done"
        /\ call[t].request.use_context = "true"
        /\ call[t].outcome.error = "ValidationError"
        /\ call[t].invoked = <<"rag_chain">>

\* the model and the retriever answered the calls c and d alike
SameAnswers(c, d) ==
    /\ c.invoked # <<>> /\ d.invoked # <<>>
    /\ (c.outcome.error = "InvokeError") = (d.outcome.error = "InvokeError")
    /\ c.raw = d.raw
    /\ c.context_docs = d.context_docs
    /\ c.source_documents = d.source_documents

\* C19: two calls of analyse_question with the same question and the same
\* use_context flag, to which the model and the retriever gave the same
\* answers, end alike: the same result or the same error, the same source
\* content and the same response, whatever calls the service has served
\* before the one or between the two.
C19_SameInputsSameResult ==
    \A t, u \in Threads :
        (/\ call[t].pc = "done" /\ call[u].pc = "done"
         /\ call[t].request = call[u].request
         /\ SameAnswers(call[t], call[u]))
        => /\ call[t].outcome = call[u].outcome
           /\ call[t].source_content = call[u].source_content
           /\ call[t].json_content = call[u].json_content
           /\ call[t].response = call[u].response

\* two finished context-mode calls with the same question and the same
\* answers of model and retriever, both returned with source content
C19_Witness ==
    \E t, u \in Threads :
        /\ t # u
        /\ call[t].pc = "done" /\ call[u].pc = "done"
        /\ call[t].request = call[u].request
        /\ call[t].request.use_context = "true"
        /\ SameAnswers(call[t], call[u])
        /\ call[t].outcome.kind = "return"
        /\ Len(call[t].outcome.source_content) = 4

\* the body of a page block: what follows the eight tokens of its header
PageBody(e) == SubSeq(e.text, 9, Len(e.text))

\* the text of the two columns as the service combines it
Combined(e) == Strip(e.left_text) \o Strip(e.right_text)

\* C20: a page whose split and two OCR calls succeeded with nothing but white
\* space has the body '[No text extracted]' and nothing else; a page whose
\* split or OCR call raised has the body '[OCR processing failed: ', the
\* reason, ']'; a page with extracted text has that text as its body and
\* neither annotation added to it.
C20_EmptyExtractionIsNotAFailure ==
    \A i \in 1..Len(page_log) :
        LET e == page_log[i]
            body == PageBody(e)
        IN  /\ SubSeq(e.text, 1, 8) = <<NL, NL, "---", WS, e.name, WS, "---", NL>>
            /\ IF PageFailed(e)
               THEN /\ Len(body) >= 2
                    /\ body[1] = "[OCR processing failed: "
                    /\ body[Len(body)] = "]"
                    /\ e.left = "raised" => body = <<body[1]>> \o e.left_text \o <<"]">>
                    /\ e.right = "raised" => body = <<body[1]>> \o e.right_text \o <<"]">>
                    /\ ~ContainsSeq(body, <<"[No text extracted]">>)
               ELSE IF Combined(e) = <<>>
               THEN body = <<"[No text extracted]">>
               ELSE /\ body = Combined(e)
                    /\ ~ContainsSeq(body, <<"[No text extracted]">>)
                    /\ ~ContainsSeq(body, <<"[OCR processing failed: ">>)

\* a batch with a page without text, a page that failed and a page with text
C20_Witness ==
    /\ ocr_pc = "returned"
    /\ \E i, j, k \in 1..Len(page_log) :
          /\ ~PageFailed(page_log[i]) /\ Combined(page_log[i]) = <<>>
          /\ page_log[i].left_text # <<>>
          /\ PageFailed(page_log[j])
          /\ ~PageFailed(page_log[k]) /\ Combined(page_log[k]) # <<>>

\* the tokens of s that stand before its first token of S
RECURSIVE Before(_, _)
Before(s, S) ==
    IF s = <<>> \/ Head(s) \in S THEN <<>> ELSE <<Head(s)>> \o Before(Tail(s), S)

\* C21: the block of every processed page, be it with text, without text
\* or failed, is the header '--- <file name> ---' and then the body; the
\* body of a page with text is the text of the left column and behind it the
\* text of the right column; the returned corpus holds one header for each
\* image file found and no other.
C21_HeaderThenLeftThenRight ==
    /\ \A i \in 1..Len(page_log) :
          LET e == page_log[i]
          IN  /\ Len(e.text) > 8
              /\ SubSeq(e.text, 3, 7) = <<"---", WS, e.name, WS, "---">>
              /\ Count(e.text, {"---"}) = 2
              /\ (~PageFailed(e) /\ Combined(e) # <<>>) =>
                    /\ Before(Inked(PageBody(e)), {"gamma", "delta"})
                          = Inked(e.left_text)
                    /\ Len(PageBody(e)) = Len(Strip(e.left_text)) + Len(Strip(e.right_text))
                    /\ Inked(PageBody(e)) = Inked(e.left_text) \o Inked(e.right_text)
    /\ ocr_pc \in {"loop", "returned"} =>
          /\ Count(full_text, {"---"}) = 2 * Len(page_log)
          /\ Len(HeaderNames) = Len(page_log)
    /\ ocr_pc = "returned" =>
          \A f \in {"a.jpg", "a.png", "c.jpeg", "d.jpg"} :
              Count(full_text, {f}) = Count(dir_listing, {f})

\* a returned corpus of three pages: one with text in both columns, one
\* without text, one failed
C21_Witness ==
    /\ ocr_pc = "returned"
    /\ Len(page_log) = 3
    /\ \E i, j, k \in 1..3 :
          /\ ~PageFailed(page_log[i])
          /\ Strip(page_log[i].left_text) # <<>> /\ Strip(page_log[i].right_text) # <<>>
          /\ ~PageFailed(page_log[j]) /\ Combined(page_log[j]) = <<>>
          /\ page_log[k].split = "raised"

\* C22: once the application serves requests with its service built, no
\* step of any analyse_question call, in either mode, returning or raising,
\* alone or next to other calls, changes the service's vector_store,
\* retriever, rag_chain or simple_chain, and no set-up step runs.
C22_AnalysisLeavesServiceUnchanged ==
    [][app_state = "serving" =>
          /\ svc'.vector_store = svc.vector_store
          /\ svc'.retriever = svc.retriever
          /\ svc'.rag_chain = svc.rag_chain
          /\ svc'.simple_chain = svc.simple_chain
          /\ builds' = builds]_vars

\* two calls finished next to each other on a built service, one returned
\* in context mode, one raised in context-free mode
C22_Witness ==
    /\ app_llm_service = "service"
    /\ svc.vector_store # None /\ svc.simple_chain # None
    /\ \E t, u \in Threads :
          /\ call[t].pc = "done" /\ call[t].outcome.kind = "return"
          /\ call[t].invoked = <<"rag_chain">>
          /\ call[u].pc = "done" /\ call[u].outcome.kind = "raise"
          /\ call[u].invoked = <<"simple_chain">>

\* a question without any character, or of white space only
BlankQuestion(q) == \A i \in 1..Len(q) : q[i] \in {WS, NL, CR}

\* the request is JSON, passes AnalysisRequest and has a question to analyse
ValidRequest(req) == req.is_json /\ req.valid_body /\ ~BlankQuestion(req.question)

\* analyse_question of the service was not entered for this request
ServiceNotCalled(c) == c.outcome = NoOutcome /\ c.invoked = <<>> /\ c.log = <<>>

\* C23: an answered request that is not JSON, fails request validation or
\* has a blank question got 400 and never entered the service; with the
\* service not built at start every valid request gets 503, no request
\* enters the service and no set-up step runs again; a call of the service
\* that raised is answered 500 with success false and no result; and 200 is
\* answered only for a call that returned, with success true, the validated
\* result and the source content.
C23_EndpointAnswersAreWhole ==
    /\ \A t \in Threads :
          LET c == call[t]
          IN  /\ c.pc = "done" =>
                    /\ ~ValidRequest(c.request) =>
                          c.response = ErrorResponse(400) /\ ServiceNotCalled(c)
                    /\ (ValidRequest(c.request) /\ app_llm_service # "service") =>
                          c.response = ErrorResponse(503) /\ ServiceNotCalled(c)
                    /\ c.outcome.kind = "raise" =>
                          /\ c.response.status = 500
                          /\ ~c.response.success
                          /\ c.response.result = NoResult
                          /\ ~c.response.has_source_content
                    /\ c.response.status = 200 <=> c.outcome.kind = "return"
                    /\ c.response.status = 200 =>
                          /\ c.response.success
                          /\ c.response.result # NoResult
                          /\ c.response.result = c.outcome.analysis
                          /\ c.response.has_source_content
                          /\ c.response.source_content = c.outcome.source_content
                    /\ c.response.status \in {200, 400, 500, 503}
              /\ c.pc \in {"ensure", "invoke", "parse"} =>
                    ValidRequest(c.request) /\ app_llm_service = "service"
    /\ (app_state = "serving" /\ init_failure # "none") =>
          /\ app_llm_service = "none"
          /\ builds.load_documents <= 1 /\ builds.vector_store <= 1
          /\ builds.rag_chain <= 1 /\ builds.simple_chain <= 1
          /\ builds[init_failure] = 1

\* a request with a question of white space only, answered 400, on an
\* application whose service was built
C23_Witness ==
    /\ app_llm_service = "service"
    /\ \E t \in Threads :
          /\ call[t].pc = "done"
          /\ call[t].request.is_json /\ call[t].request.valid_body
          /\ call[t].request.question = <<WS>>
          /\ call[t].response.status = 400

\* the name under which the sub-image of a page is to be saved
OwnSplitFile(f, part) == <<"splits/", Stem(f), "_" \o part, Suffix(f)>>

\* a page of the log wrote the part of the file f
Wrote(f, part) ==
    \E i \in 1..Len(page_log) : page_log[i].name = f /\ part \in page_log[i].wrote

\* C24: every file of the splits directory is the left or right sub-image
\* of the one page it is named after, under the name
\* splits/<stem>_left<suffix> or splits/<stem>_right<suffix>; the names of
\* two image files found for a run never meet; and what a page has written
\* stays as it is through all later pages, those that fail in split_image
\* or in writing too.
C24_SplitWritesOnlyOwnFiles ==
    /\ \A f \in DOMAIN split_files :
          /\ f = OwnSplitFile(split_files[f].page, split_files[f].part)
          /\ Wrote(split_files[f].page, split_files[f].part)
    /\ \A i \in 1..Len(page_log) : \A part \in page_log[i].wrote :
          /\ OwnSplitFile(page_log[i].name, part) \in DOMAIN split_files
          /\ split_files[OwnSplitFile(page_log[i].name, part)]
                = [page |-> page_log[i].name, part |-> part]
    /\ (ocr_pc = "loop" /\ page_log = <<>>) =>
          \A i, j \in 1..Len(image_files) : \A p, q \in {"left", "right"} :
              OwnSplitFile(image_files[i], p) = OwnSplitFile(image_files[j], q)
                  => i = j /\ p = q

\* the page a.jpg was split and written, then the page a.png of the same
\* stem failed after its left sub-image was written
C24_Witness ==
    /\ Len(page_log) >= 2
    /\ page_log[1].name = "a.jpg" /\ page_log[1].wrote = {"left", "right"}
    /\ page_log[2].name = "a.png" /\ page_log[2].wrote = {"left"}
    /\ page_log[2].split = "raised"

\* C25 as claimed: the source content a context-mode call returns is made
\* of the very chunks that stood as context in the prompt the model
\* answered, whatever the retriever hands out from one query to the next.
C25_SourceContentIsPromptContext ==
    \A t \in Threads :
        ReturnedWithContext(call[t]) =>
            /\ call[t].source_documents = call[t].context_docs
            /\ \A i \in 1..Len(call[t].context_docs) :
                  call[t].outcome.source_content[2 * i - 1] = call[t].context_docs[i]
            /\ Len(call[t].outcome.source_content) = 2 * Len(call[t].context_docs)

(* C26 *)
\* every file that the upload accepted and saved is among the pages found
\* by each later run of the processing, and no page found comes from the
\* splits subdirectory.
C26_SavedUploadsAreProcessed ==
    up_runs > 0 =>
        /\ \A i \in 1..Len(up_saved) :
              \E j \in 1..Len(up_found) : up_found[j] = up_saved[i]
        /\ \A j \in 1..Len(up_found) :
              /\ up_found[j] # "splits"
              /\ \E i \in 1..Len(up_saved) : up_saved[i] = up_found[j]

=============================================================================
